---------------------------- MODULE Spec2Model ----------------------------
(* Celebrity-clique search (Bird, "Pearls of Functional Algorithm Design",  *)
(* ch. 9) as implemented in src/src/clique.rs, src/src/clique/person.rs and *)
(* src/src/main.rs.                                                         *)
(*                                                                          *)
(* A Person is the record [id, known_people]; a HashSet<Person> is a set of *)
(* such records holding at most one record per id (Person's Eq and Hash     *)
(* look at the id alone).  Option<T> is a set of at most one T: None is {}, *)
(* Some(x) is {x}.  The iteration order of a HashSet is not fixed by the    *)
(* program (RandomState), so every loop over a HashSet whose order shows in *)
(* its result takes the order as a sequence chosen nondeterministically.    *)
EXTENDS Integers, Sequences, FiniteSets, Bags, TLC

VARIABLES
    pc,       \* position of the run
    entries,  \* main: the (id, known ids) pairs the party is built from
    ps,       \* main: the party, a HashSet<Person>
    css,      \* result of the latest ps.cclique(): an Option<HashSet<Person>>
    first,    \* result of the first ps.cclique() of this party
    runs,     \* number of ps.cclique() calls made so far
    graph,    \* result of clique2digraph(&ps)
    raw,      \* Person::from: its argument, an (id, known ids) pair
    person,   \* Person::from: its result
    other,    \* Person::knows: its argument
    answer,   \* Person::knows: its result
    order,    \* power_set: the iteration order of its argument set
    caps,     \* power_set: the capacity each level was allocated with
    subsets   \* power_set: its result

vars == <<pc, entries, ps, css, first, runs, graph,
          raw, person, other, answer, order, caps, subsets>>

-----------------------------------------------------------------------------
(* Bounds of the model.                                                     *)

\* ids of the parties of Spec and of the arguments of Person::from: 1..MaxId
MaxId == 3
\* longest list of known ids handed to Person::from in SpecPerson
MaxKnown == 2
\* ps.cclique() calls per party in Spec and SpecMain
MaxRuns == 2
\* SpecMain: most pairs in a generated input sequence
MaxEntries == 2
\* SpecMain: ids of the generated pairs: 1..MaxEntryId
MaxEntryId == 2
\* SpecMain: longest list of known ids in a generated pair
MaxEntryKnown == 1
\* SpecPS: power_set's argument is a subset of 1..MaxElems
MaxElems == 5

\* the id in main's sample data that belongs to nobody at the party
Stranger == 42

Ids == 1..MaxId

-----------------------------------------------------------------------------
(* Helpers on sequences and sets.                                           *)

Range(s) == {s[i] : i \in DOMAIN s}

\* every sequence over S of length at most n
SeqsUpTo(S, n) == UNION {[1..k -> S] : k \in 0..n}

\* every order in which the elements of S can be iterated
RECURSIVE Orders(_)
Orders(S) ==
    IF S = {} THEN {<<>>}
    ELSE UNION {{<<x>> \o o : o \in Orders(S \ {x})} : x \in S}

RECURSIVE Flatten(_)
Flatten(ss) == IF ss = <<>> THEN <<>> ELSE Head(ss) \o Flatten(Tail(ss))

None == {}
Some(x) == {x}

-----------------------------------------------------------------------------
(* person.rs                                                                *)

\* impl PartialEq for Person: equality is equality of ids
PersonEq(a, b) == a.id = b.id

\* Person::knows without the reflexive case
knowsOthersOnly(self, other_) == other_.id \in self.known_people

\* Person::knows
knows(self, other_) ==
    PersonEq(self, other_) \/ other_.id \in self.known_people

\* Person::from without the filter that removes the person's own id
PersonFromUnfiltered(pair) ==
    [id |-> pair[1], known_people |-> Range(pair[2])]

\* impl From<(N, V)> for Person: the known ids, without the person's own id,
\* collected into a HashSet
PersonFrom(pair) ==
    LET id == pair[1]
        kept == SelectSeq(pair[2], LAMBDA people_id : people_id # id)
    IN  [id |-> id, known_people |-> Range(kept)]

-----------------------------------------------------------------------------
(* clique.rs                                                                *)

\* is_clique: no member leaves an id of the clique, other than its own, out
\* of its known_people
is_clique(self) ==
    LET clique == {member.id : member \in self}
    IN  \A member \in self :
            Cardinality({rem \in clique \ member.known_people :
                            rem # member.id}) = 0

\* HashSet<Person>::contains: membership by Eq, that is by id
Contains(self, someone) == \E member \in self : PersonEq(member, someone)

\* is_cclique without the test that a celebrity knows members only
is_ccliqueKnownByAll(self, party) ==
    \A someone \in party : \A celebrity \in self : knows(someone, celebrity)

\* is_cclique without the test that everybody knows the celebrity
is_ccliqueKnowsMembersOnly(self, party) ==
    \A someone \in party : \A celebrity \in self :
        ~(knows(celebrity, someone) /\ ~Contains(self, someone))

\* is_cclique: false at the first (someone, celebrity) pair where someone
\* does not know the celebrity, or the celebrity knows someone outside self
is_cclique(self, party) ==
    \A someone \in party : \A celebrity \in self :
        ~(~knows(someone, celebrity)
          \/ (knows(celebrity, someone) /\ ~Contains(self, someone)))

\* the fold dividing before it multiplies: acc * ((n - v) / (v + 1))
RECURSIVE BinomialFoldDivFirst(_, _, _, _)
BinomialFoldDivFirst(acc, v, n, k) ==
    IF v >= k THEN acc
    ELSE BinomialFoldDivFirst(acc * ((n - v) \div (v + 1)), v + 1, n, k)

\* binomial_approx: (0..k).fold(1, |acc, v| acc * (n - v) / (v + 1)).  The
\* products stay far below usize::MAX for the n of this model.
RECURSIVE BinomialFold(_, _, _, _)
BinomialFold(acc, v, n, k) ==
    IF v >= k THEN acc
    ELSE BinomialFold((acc * (n - v)) \div (v + 1), v + 1, n, k)

binomial_approx(n, k) ==
    IF n < k THEN 0
    ELSE IF k = 0 \/ k = n THEN 1
    ELSE BinomialFold(1, 0, n, k)

\* power_set, lines 70-74: the capacity requested for each level 1..n
LevelCaps(n) == [k \in 1..n |-> binomial_approx(n, k)]

\* power_set, lines 70-74: level 0 holds the empty subset, levels 1..n are
\* empty.  Level k is element k + 1 of the sequence.
InitLevels(n) == <<(<<{}>>)>> \o [k \in 1..n |-> <<>>]

\* power_set, lines 78-82: every subset of level cap, as it stands when the
\* loop reaches cap, is cloned, gets elem inserted and is pushed on level
\* cap + 1.  The subsets are subsets of one HashSet, whose elements differ
\* pairwise under Eq, so insert is set union.
PushLevel(levels, elem, cap) ==
    [levels EXCEPT ![cap + 2] =
        @ \o [i \in 1..Len(levels[cap + 1]) |-> levels[cap + 1][i] \cup {elem}]]

\* power_set, line 77: for cap in (0..set.len()).rev()
RECURSIVE Descend(_, _, _)
Descend(levels, elem, cap) ==
    IF cap < 0 THEN levels
    ELSE Descend(PushLevel(levels, elem, cap), elem, cap - 1)

\* the loop over cap run upwards: for cap in 0..set.len()
RECURSIVE Ascend(_, _, _, _)
Ascend(levels, elem, cap, n) ==
    IF cap >= n THEN levels
    ELSE Ascend(PushLevel(levels, elem, cap), elem, cap + 1, n)

AddElemAscending(levels, elem, n) == Ascend(levels, elem, 0, n)

\* power_set, lines 77-83: the body of the loop over the elements
AddElem(levels, elem, n) == Descend(levels, elem, n - 1)

\* power_set, line 76: for elem in set, in the set's iteration order
RECURSIVE ForEachElem(_, _, _)
ForEachElem(levels, order_, n) ==
    IF order_ = <<>> THEN levels
    ELSE ForEachElem(AddElem(levels, Head(order_), n), Tail(order_), n)

\* power_set: order_ is the iteration order of the argument set
power_set(order_) ==
    Flatten(ForEachElem(InitLevels(Len(order_)), order_, Len(order_)))

\* Iterator::find over the subsets from index i on
RECURSIVE Find(_, _, _)
Find(all, i, party) ==
    IF i > Len(all) THEN None
    ELSE IF is_cclique(all[i], party) THEN Some(all[i])
    ELSE Find(all, i + 1, party)

\* cclique without skip(1)
ccliqueNoSkip(self, order_) == Find(power_set(order_), 1, self)

\* Iterator::find with is_clique as the predicate
RECURSIVE FindClique(_, _)
FindClique(all, i) ==
    IF i > Len(all) THEN None
    ELSE IF is_clique(all[i]) THEN Some(all[i])
    ELSE FindClique(all, i + 1)

\* cclique searching for the first clique
ccliqueByClique(self, order_) == FindClique(power_set(order_), 2)

\* cclique: skip(1) drops the first subset; order_ is the iteration order
\* of self inside power_set
cclique(self, order_) == Find(power_set(order_), 2, self)

\* DiGraph::new().  A node is named by its weight, the id it was added
\* with (the HashMap nodes maps each id to the node added for it); nodes and
\* edges are bags, so that a node or an edge added twice counts twice.
NewGraph == [nodes |-> EmptyBag, edges |-> EmptyBag]

\* clique2digraph, lines 103-105: one node per person, recorded under its id
RECURSIVE AddNodes(_, _)
AddNodes(g, order_) ==
    IF order_ = <<>> THEN g
    ELSE AddNodes([g EXCEPT !.nodes = @ (+) SetToBag({Head(order_).id})],
                  Tail(order_))

\* the edges of one person added from the known person to the person
RECURSIVE AddEdgesReversed(_, _, _)
AddEdgesReversed(g, person_, known) ==
    IF known = {} THEN g
    ELSE LET known_person_id == CHOOSE k \in known : TRUE
             found == BagIn(person_.id, g.nodes)
                      /\ BagIn(known_person_id, g.nodes)
             g2 == IF found
                   THEN [g EXCEPT !.edges =
                            @ (+) SetToBag({<<known_person_id, person_.id>>})]
                   ELSE g
         IN  AddEdgesReversed(g2, person_, known \ {known_person_id})

\* clique2digraph, lines 108-120: the edges of one person; an end that
\* nodes.get does not find skips the edge (continue).  The bag of edges
\* does not depend on the order in which known_people is iterated.
RECURSIVE AddEdges(_, _, _)
AddEdges(g, person_, known) ==
    IF known = {} THEN g
    ELSE LET known_person_id == CHOOSE k \in known : TRUE
             found == BagIn(person_.id, g.nodes)
                      /\ BagIn(known_person_id, g.nodes)
             g2 == IF found
                   THEN [g EXCEPT !.edges =
                            @ (+) SetToBag({<<person_.id, known_person_id>>})]
                   ELSE g
         IN  AddEdges(g2, person_, known \ {known_person_id})

\* clique2digraph, line 107: for person in clique
RECURSIVE ForEachPerson(_, _)
ForEachPerson(g, order_) ==
    IF order_ = <<>> THEN g
    ELSE ForEachPerson(AddEdges(g, Head(order_), Head(order_).known_people),
                       Tail(order_))

\* clique2digraph: order_ is the iteration order of clique
clique2digraph(order_) == ForEachPerson(AddNodes(NewGraph, order_), order_)

-----------------------------------------------------------------------------
(* main.rs                                                                  *)

\* an insert that replaces the value already in the set
HashSetInsertReplace(set, value) ==
    {member \in set : ~PersonEq(member, value)} \cup {value}

\* HashSet::insert: a value equal (by id) to one already in the set leaves
\* the set as it is
HashSetInsert(set, value) ==
    IF Contains(set, value) THEN set ELSE set \cup {value}

\* HashSet::from_iter: insert the items in sequence order
RECURSIVE FromIter(_, _)
FromIter(set, items) ==
    IF items = <<>> THEN set
    ELSE FromIter(HashSetInsert(set, Head(items)), Tail(items))

\* main, lines 22-33: HashSet::from_iter(pairs.map(Person::from))
BuildParty(pairs) ==
    FromIter({}, [i \in DOMAIN pairs |-> PersonFrom(pairs[i])])

\* main, lines 24-30: the sample data
MainEntries ==
    << <<1, <<1, 2, 3>>>>,
       <<2, <<1, 3>>>>,
       <<3, <<1, 2>>>>,
       <<4, <<1, 2, 3, Stranger>>>>,
       <<5, <<1, 2, 3, 4, 5>>>>,
       <<6, <<1, 2, 3, 7>>>>,
       <<7, <<1, 2, 3, 5, 6>>>> >>

-----------------------------------------------------------------------------
(* Inputs.                                                                  *)

\* every HashSet<Person> over Ids: at most one Person per id, no Person in
\* its own known_people (Person::from builds no other)
Parties ==
    UNION {{{[id |-> i, known_people |-> f[i]] : i \in S} :
               f \in {g \in [S -> SUBSET Ids] : \A i \in S : i \notin g[i]}} :
           S \in SUBSET Ids}

\* arguments of Person::from
FromInputs == Ids \X SeqsUpTo(Ids, MaxKnown)

\* input sequences of main
EntrySeqs ==
    SeqsUpTo((1..MaxEntryId) \X SeqsUpTo(1..MaxEntryId, MaxEntryKnown),
             MaxEntries)

NoPerson == [id |-> 0, known_people |-> {}]

-----------------------------------------------------------------------------
(* Actions.                                                                 *)

\* main, line 22: build the party
Build ==
    /\ pc = "start"
    /\ ps' = BuildParty(entries)
    /\ pc' = "built"
    /\ UNCHANGED <<entries, css, first, runs, graph,
                   raw, person, other, answer, order, caps, subsets>>

\* main, line 35: ps.cclique(), under any iteration order of ps; a further
\* call repeats the search on the same party
Search ==
    /\ pc \in {"built", "searched"}
    /\ runs < MaxRuns
    /\ \E o \in Orders(ps) : css' = cclique(ps, o)
    /\ first' = IF runs = 0 THEN css' ELSE first
    /\ runs' = runs + 1
    /\ pc' = "searched"
    /\ UNCHANGED <<entries, ps, graph,
                   raw, person, other, answer, order, caps, subsets>>

\* main, line 41: clique2digraph(&ps), under any iteration order of ps
Export ==
    /\ pc = "searched"
    /\ \E o \in Orders(ps) : graph' = clique2digraph(o)
    /\ pc' = "exported"
    /\ UNCHANGED <<entries, ps, css, first, runs,
                   raw, person, other, answer, order, caps, subsets>>

\* Person::from(raw)
From ==
    /\ pc = "start"
    /\ person' = PersonFrom(raw)
    /\ pc' = "made"
    /\ UNCHANGED <<entries, ps, css, first, runs, graph,
                   raw, other, answer, order, caps, subsets>>

\* person.knows(&other), for any other Person
Knows ==
    /\ pc = "made"
    /\ \E r \in FromInputs :
          /\ other' = PersonFrom(r)
          /\ answer' = knows(person, other')
    /\ pc' = "asked"
    /\ UNCHANGED <<entries, ps, css, first, runs, graph,
                   raw, person, order, caps, subsets>>

\* power_set(set), the set iterated in the order `order`
PowerSet ==
    /\ pc = "start"
    /\ caps' = LevelCaps(Len(order))
    /\ subsets' = power_set(order)
    /\ pc' = "generated"
    /\ UNCHANGED <<entries, ps, css, first, runs, graph,
                   raw, person, other, answer, order>>

-----------------------------------------------------------------------------
(* Specifications.                                                          *)

\* the search and the export on every party over Ids
Init ==
    /\ pc = "built"
    /\ ps \in Parties
    /\ entries = <<>> /\ css = None /\ first = None /\ runs = 0
    /\ graph = NewGraph /\ raw = <<0, <<>>>> /\ person = NoPerson
    /\ other = NoPerson /\ answer = FALSE
    /\ order = <<>> /\ caps = <<>> /\ subsets = <<>>

Next == Search \/ Export

Spec == Init /\ [][Next]_vars

\* main on its sample data and on every small input sequence
InitMain ==
    /\ pc = "start"
    /\ entries \in EntrySeqs \cup {MainEntries}
    /\ ps = {} /\ css = None /\ first = None /\ runs = 0
    /\ graph = NewGraph /\ raw = <<0, <<>>>> /\ person = NoPerson
    /\ other = NoPerson /\ answer = FALSE
    /\ order = <<>> /\ caps = <<>> /\ subsets = <<>>

NextMain == Build \/ Search \/ Export

SpecMain == InitMain /\ [][NextMain]_vars

\* Person::from and Person::knows on every small argument
InitPerson ==
    /\ pc = "start"
    /\ raw \in FromInputs
    /\ entries = <<>> /\ ps = {} /\ css = None /\ first = None /\ runs = 0
    /\ graph = NewGraph /\ person = NoPerson
    /\ other = NoPerson /\ answer = FALSE
    /\ order = <<>> /\ caps = <<>> /\ subsets = <<>>

NextPerson == From \/ Knows

SpecPerson == InitPerson /\ [][NextPerson]_vars

\* power_set on every subset of 1..MaxElems in every iteration order
InitPS ==
    /\ pc = "start"
    /\ order \in UNION {Orders(S) : S \in SUBSET (1..MaxElems)}
    /\ entries = <<>> /\ ps = {} /\ css = None /\ first = None /\ runs = 0
    /\ graph = NewGraph /\ raw = <<0, <<>>>> /\ person = NoPerson
    /\ other = NoPerson /\ answer = FALSE
    /\ caps = <<>> /\ subsets = <<>>

NextPS == PowerSet

SpecPS == InitPS /\ [][NextPS]_vars

-----------------------------------------------------------------------------
(* Properties.                                                              *)

IdsOf(people) == {p.id : p \in people}

\* the non-empty subsets of the party that is_cclique accepts
CelebrityCliques == {C \in (SUBSET ps) \ {{}} : is_cclique(C, ps)}

Searched == runs > 0

\* the number of k-element subsets of an n-element set, by counting them
Choose(n, k) == Cardinality({s \in SUBSET (1..n) : Cardinality(s) = k})

RECURSIVE Pow2(_)
Pow2(n) == IF n = 0 THEN 1 ELSE 2 * Pow2(n - 1)

\* C1: cclique returns Some(C) only for a non-empty subset C of the party
\* that is_cclique accepts, and None exactly when is_cclique accepts no
\* non-empty subset; None for the empty party and for three actors who know
\* nobody, the party itself for a single actor who knows nobody.
C1_SearchContract ==
    Searched =>
        /\ \A C \in css : C # {} /\ C \subseteq ps /\ is_cclique(C, ps)
        /\ Cardinality(css) <= 1
        /\ (css = None) <=> (CelebrityCliques = {})
        /\ (ps = {}) => (css = None)
        /\ (Cardinality(ps) = 3 /\ \A p \in ps : p.known_people = {})
              => (css = None)
        /\ (Cardinality(ps) = 1 /\ \A p \in ps : p.known_people = {})
              => (css = Some(ps))

\* C1 witness: a search of a three-person party returned a celebrity clique
\* that is not the whole party.
C1_Witness ==
    /\ Searched
    /\ Cardinality(ps) = 3
    /\ \E C \in css : C # ps /\ Cardinality(C) = 2

\* C2: at most one non-empty subset of the party is a celebrity clique.
C2_Unique ==
    \A C1 \in CelebrityCliques : \A C2 \in CelebrityCliques : C1 = C2

\* C2 witness: a party with a celebrity clique of two, one of whose actors
\* knows somebody who is not at the party, has been searched.
C2_Witness ==
    /\ Searched
    /\ \E C \in CelebrityCliques : Cardinality(C) = 2
    /\ \E p \in ps : ~(p.known_people \subseteq IdsOf(ps))

\* C3 (as amended): every non-empty subset of the party that is_cclique
\* accepts is a clique under is_clique.
C3_CcliqueIsClique ==
    \A C \in (SUBSET ps) \ {{}} : is_cclique(C, ps) => is_clique(C)

\* C3 witness: the search returned a celebrity clique of two actors.
C3_Witness ==
    /\ Searched
    /\ \E C \in css : Cardinality(C) = 2 /\ is_clique(C)

\* C3 (as claimed): for every party and every non-empty set C of Persons,
\* is_cclique(C, party) implies is_clique(C).
C3_AnySetOfPersons ==
    \A C \in Parties \ {{}} : is_cclique(C, ps) => is_clique(C)

\* C4: power_set returns 2^n subsets of its argument, pairwise distinct,
\* one of them empty and one of them the argument itself.
C4_PowerSet ==
    pc = "generated" =>
        LET S == Range(order)
            n == Len(order)
        IN  /\ Len(subsets) = Pow2(n)
            /\ \A i \in DOMAIN subsets : subsets[i] \subseteq S
            /\ \A i \in DOMAIN subsets : \A j \in DOMAIN subsets :
                   subsets[i] = subsets[j] => i = j
            /\ Range(subsets) = SUBSET S
            /\ Cardinality({i \in DOMAIN subsets : subsets[i] = {}}) = 1
            /\ Cardinality({i \in DOMAIN subsets : subsets[i] = S}) = 1

\* C4 witness: power_set has run on a set of at least three elements
\* iterated in an order that is not the ascending one.
C4_Witness ==
    /\ pc = "generated"
    /\ Len(order) >= 3
    /\ order[1] > order[2]
    /\ Len(subsets) = 8

\* C5: the result of power_set is grouped by increasing cardinality, starts
\* with the empty subset, and holds C(n, k) subsets of each cardinality k,
\* which is binomial_approx(n, k), the capacity level k was given.
C5_Levels ==
    pc = "generated" =>
        LET n == Len(order)
            Count(k) == Cardinality({i \in DOMAIN subsets :
                                        Cardinality(subsets[i]) = k})
        IN  /\ \A i \in DOMAIN subsets : \A j \in DOMAIN subsets :
                   i < j => Cardinality(subsets[i]) <= Cardinality(subsets[j])
            /\ subsets[1] = {}
            /\ \A k \in 0..n : /\ Count(k) = Choose(n, k)
                               /\ Count(k) = binomial_approx(n, k)
            /\ \A k \in 1..n : caps[k] = Count(k)

\* C5 witness: power_set has run on four elements, whose middle level
\* holds six subsets.
C5_Witness ==
    /\ pc = "generated"
    /\ Len(order) = 4
    /\ caps[2] = 6
    /\ Cardinality(subsets[6]) = 2

\* C6: on main's sample data cclique returns the actors 1, 2 and 3.
C6_Sample ==
    (entries = MainEntries /\ Searched) =>
        /\ Cardinality(css) = 1
        /\ \A C \in css : C \subseteq ps /\ IdsOf(C) = {1, 2, 3}

\* C6 witness: the sample party, seven actors one of whom knows the
\* stranger, has been searched.
C6_Witness ==
    /\ entries = MainEntries
    /\ Searched
    /\ Cardinality(ps) = 7
    /\ \E p \in ps : Stranger \in p.known_people

\* C7: Person::from always succeeds and stores the supplied ids without the
\* person's own; a person knows itself, and knows another person exactly
\* when that person's id is in its known_people.
C7_Person ==
    /\ pc = "start" => ENABLED From
    /\ pc \in {"made", "asked"} =>
          /\ person.id = raw[1]
          /\ person.known_people = Range(raw[2]) \ {raw[1]}
          /\ person.id \notin person.known_people
          /\ knows(person, person)
    /\ pc = "asked" =>
          /\ other.id = person.id => answer
          /\ other.id # person.id =>
                (answer <=> other.id \in person.known_people)

\* C7 witness: a person built from a list naming itself and somebody else
\* was asked about that somebody else, and knows them.
C7_Witness ==
    /\ pc = "asked"
    /\ raw[1] \in Range(raw[2])
    /\ other.id # person.id
    /\ other.id \in Range(raw[2])
    /\ answer

\* C8: a repeated search of the same party returns what the first search
\* returned, whatever the iteration orders of the two searches.
C8_Deterministic == runs >= 2 => css = first

\* C8 witness: a party of three has been searched twice and has a
\* celebrity clique.
C8_Witness ==
    /\ runs >= 2
    /\ Cardinality(ps) = 3
    /\ css # None
    /\ css = first

\* C9 (as amended): the graph has exactly one node per actor id and exactly
\* one edge (a -> b) for every actor a and every b in a.known_people that is
\* the id of an actor of the party, and no other edge.
C9_Digraph ==
    pc = "exported" =>
        /\ BagToSet(graph.nodes) = IdsOf(ps)
        /\ \A i \in IdsOf(ps) : CopiesIn(i, graph.nodes) = 1
        /\ BagToSet(graph.edges) =
              {<<a.id, b>> : a \in ps, b \in IdsOf(ps)}
                 \cap UNION {{<<a.id, b>> : b \in a.known_people} : a \in ps}
        /\ \A e \in BagToSet(graph.edges) : CopiesIn(e, graph.edges) = 1

\* C9 witness: a party with an edge between two actors and an actor who
\* knows somebody absent has been exported.
C9_Witness ==
    /\ pc = "exported"
    /\ BagToSet(graph.edges) # {}
    /\ \E p \in ps : ~(p.known_people \subseteq IdsOf(ps))

\* C9 (as claimed): one edge (a -> b) for every actor a and every b in
\* a.known_people.
C9_EdgePerKnownId ==
    pc = "exported" =>
        /\ \A i \in IdsOf(ps) : CopiesIn(i, graph.nodes) = 1
        /\ \A a \in ps : \A b \in a.known_people :
              CopiesIn(<<a.id, b>>, graph.edges) = 1

\* the index of the first, and of the last, pair of entries with this id
FirstWith(id) == CHOOSE i \in DOMAIN entries :
    entries[i][1] = id /\ \A j \in 1..(i - 1) : entries[j][1] # id
LastWith(id) == CHOOSE i \in DOMAIN entries :
    entries[i][1] = id /\ \A j \in (i + 1)..Len(entries) : entries[j][1] # id

EntryIds == {entries[i][1] : i \in DOMAIN entries}

\* C10 (as amended): the party holds one Person for each id of the input
\* sequence, and its known_people is that of the first pair with that id.
C10_FirstEntryKept ==
    pc # "start" =>
        /\ IdsOf(ps) = EntryIds
        /\ Cardinality(ps) = Cardinality(EntryIds)
        /\ \A p \in ps : p = PersonFrom(entries[FirstWith(p.id)])

\* C10 witness: a party was built from two pairs with the same id and
\* different known ids.
C10_Witness ==
    /\ pc = "built"
    /\ \E i \in DOMAIN entries : \E j \in DOMAIN entries :
          /\ i < j
          /\ entries[i][1] = entries[j][1]
          /\ PersonFrom(entries[i]) # PersonFrom(entries[j])

\* C10 (as claimed): the known_people of the Person held for an id is that
\* of the last pair with that id.
C10_LastEntryKept ==
    pc # "start" =>
        /\ IdsOf(ps) = EntryIds
        /\ Cardinality(ps) = Cardinality(EntryIds)
        /\ \A p \in ps : p = PersonFrom(entries[LastWith(p.id)])

=============================================================================
